---- MODULE Spec2Model ----
(***************************************************************************)
(* Time-domain data ingestion for Medtronic RC+S packets                   *)
(* (medtronicrcs pseudocode, src/unnamed/part_001).                        *)
(*                                                                         *)
(* Number representation.  The pseudocode computes with real numbers; the  *)
(* model keeps them exact as fixed-point integers:                         *)
(*   - seconds with fraction that stay small (the Medtronic timestamp,     *)
(*     SYSTEM_TICK_DURATION, the sampling period) are counted in           *)
(*     microseconds (Micro units per second);                              *)
(*   - UNIX timestamps are a pair [s, us] of whole seconds and             *)
(*     microseconds, 0 <= us < Micro, because the microsecond count of a   *)
(*     UNIX time does not fit the checker's integers;                      *)
(*   - real-valued tick counts (ticks_per_point, system_tick_start, tick)  *)
(*     are counted in 1/TickScale of a tick;                               *)
(*   - voltages and the unit coefficients are normalised fractions         *)
(*     [num, den].                                                         *)
(* A variable that holds None in the source holds the empty tuple here,    *)
(* and a value x is held as <<x>>.                                         *)
(***************************************************************************)
EXTENDS Integers, Sequences, FiniteSets, TLC

\* ------------------------------------------------------------------ bounds
MaxPackets == 2
MaxPoints == 2

\* --------------------------------------------------------- representation
Micro == 1000000
TickScale == 8

None == <<>>
Some(x) == <<x>>
Val(o) == o[1]

Abs(x) == IF x < 0 THEN -x ELSE x

RECURSIVE GCD(_, _)
GCD(a, b) == IF b = 0 THEN a ELSE GCD(b, a % b)

\* the fraction n/d (d > 0) in lowest terms
Frac(n, d) ==
    LET g == GCD(Abs(n), d)
    IN  [num |-> n \div g, den |-> d \div g]

\* the UNIX time of s seconds and us microseconds, normalised
Time(s, us) == [s |-> s + (us \div Micro), us |-> us % Micro]

TimeLess(a, b) == a.s < b.s \/ (a.s = b.s /\ a.us < b.us)

\* b - a in microseconds, for two times of one chunk
MicrosBetween(a, b) == (b.s - a.s) * Micro + (b.us - a.us)

\* -------------------------------------------------------------- constants
MEDTRONIC_EPOCH == 951868800
SYSTEM_TICK_CLOCK == 65536
SYSTEM_TICK_DURATION == 100
RESYNC_DRIFT == 5 * Micro
N_CHANNELS == 4

KnownUnits == {"megavolts", "kilovolts", "volts", "millivolts", "microvolts"}

V_UNIT_SCALE_swapped ==
    [megavolts  |-> Frac(1, 1000000),
     kilovolts  |-> Frac(1, 1000),
     volts      |-> Frac(1, 1),
     millivolts |-> Frac(1000, 1),
     microvolts |-> Frac(1000000, 1)]

V_UNIT_SCALE ==
    [megavolts  |-> Frac(1000000, 1),
     kilovolts  |-> Frac(1000, 1),
     volts      |-> Frac(1, 1),
     millivolts |-> Frac(1, 1000),
     microvolts |-> Frac(1, 1000000)]

\* ------------------------------------------------------------------ state
VARIABLES
    \* variables declared before the loop
    medtronic_timestamp_prev, n_points_in_packet, packet_number_prev,
    sample_rate, system_tick_time, system_tick_prev, t_chunk_start,
    ticks_per_point, timezone_offset,
    \* variables first assigned inside the loop body
    packet, v_coef, packet_number, medtronic_timestamp, unix_timestamp,
    sampling_freq, sampling_period, system_tick_end, ticks_elapsed,
    system_tick_start, ticks_in_packet, t_packet_start, i_point, i_channel,
    \* control: position in the loop, and the error that ended it
    pc, error,
    \* environment: packets taken from the record so far, with the branch
    \* each took at the re-sync test, and the points yielded so far
    trace, out,
    \* the session downloader: its parsed arguments, exit status, the listing
    \* response and the generator's filter and position in it, the session
    \* and stream main is at, its position, the sessions the generator has
    \* yielded and the calls made to the file system and the Rune API
    args, exit_status, response, device_id, i_session, session_dir,
    session_id, i_stream, cli_pc, yielded, calls

globals == <<medtronic_timestamp_prev, n_points_in_packet, packet_number_prev,
             sample_rate, system_tick_time, system_tick_prev, t_chunk_start,
             ticks_per_point, timezone_offset>>
locals == <<packet, v_coef, packet_number, medtronic_timestamp, unix_timestamp,
            sampling_freq, sampling_period, system_tick_end, ticks_elapsed,
            system_tick_start, ticks_in_packet, t_packet_start, i_point,
            i_channel>>
cli_vars == <<args, exit_status, response, device_id, i_session, session_dir,
              session_id, i_stream, cli_pc, yielded, calls>>
ingest_vars == <<globals, locals, pc, error, trace, out>>
vars == <<ingest_vars, cli_vars>>

\* the state the spec calls clock tracker state and rate state
clock_rate_state == <<t_chunk_start, system_tick_time, system_tick_prev,
                      medtronic_timestamp_prev, sample_rate, ticks_per_point>>

\* ----------------------------------------------------------------- inputs
\* Medtronic timestamps (microseconds): 1000.0 s, 1004.999999 s and 1005.0 s
Timestamps == {1000 * Micro, 1005 * Micro - 1, 1005 * Micro}
Ticks == {10, 50, 65500}
RateCodes == {0, 1}
TimezoneOffsets == {3600}

\* the raw value of point i (from 0) of channel c
RawValue(c, i) == 3 * c - 2 * i - 3

ChannelSamplesOf(n) ==
    [c \in 0 .. N_CHANNELS - 1 |-> [Value |-> [i \in 1 .. n |-> RawValue(c, i - 1)]]]

Packet(units, rate, seq, seconds, tick, n) ==
    [Units |-> units,
     SampleRate |-> rate,
     Header |-> [dataTypeSequence |-> seq,
                 timestamp |-> [seconds |-> seconds],
                 systemTick |-> tick],
     ChannelSamples |-> ChannelSamplesOf(n)]

PacketsOf(U, R, Q, S, T, N) ==
    {Packet(u, r, q, s, t, n) : u \in U, r \in R, q \in Q, s \in S, t \in T, n \in N}

\* the telemetry feed: well-formed packets of every timestamp and tick, at
\* rate code 0 with one point or MaxPoints points per channel and at the
\* other rate codes with MaxPoints points, and packets with a unit tag that
\* V_UNIT_SCALE does not hold
ClockPackets ==
    PacketsOf({"volts"}, {0}, {1}, Timestamps, Ticks, {1, MaxPoints})
    \cup PacketsOf({"volts"}, RateCodes \ {0}, {1}, Timestamps, Ticks, {MaxPoints})
    \cup PacketsOf({"furlongs"}, {0}, {1}, {1000 * Micro}, Ticks, {1})

\* a feed of every unit tag, with fewer timestamps and ticks
UnitPackets ==
    PacketsOf(KnownUnits, RateCodes, {1}, {1000 * Micro, 1005 * Micro}, {50},
              {MaxPoints})
    \cup PacketsOf({"furlongs"}, {0}, {1}, {1000 * Micro}, {50}, {1})

\* the packets of the end-to-end scenario: timestamps 1000.0 s and 1000.5 s,
\* ticks 100 and 140, rate code 0, one or two points per channel
ScenarioPackets ==
    PacketsOf({"volts"}, {0}, {1}, {1000 * Micro, 1000 * Micro + 500000},
              {100, 140}, {1, 2})
    \cup PacketsOf({"furlongs"}, {0}, {1}, {1000 * Micro}, {100}, {1})

\* sequence numbers with a gap, and a feed whose packets carry each of them,
\* so that a stream holds duplicated, skipped and reordered numbers
SeqNumbers == {1, 2, 7}

SeqPackets ==
    PacketsOf({"volts"}, RateCodes, SeqNumbers, {1000 * Micro, 1005 * Micro},
              {50, 65500}, {1})
    \cup PacketsOf({"furlongs"}, {0}, {2}, {1000 * Micro}, {50}, {1})

\* a device whose tick counter keeps step with its clock: 10000 ticks per
\* second, the counter at 65500 at device time 1000.0 s.  Its packets are 0,
\* 0.004, 4.9999, 5.0 and 6.5536 s after that time (6.5536 s is one full
\* turn of the counter)
ConsistentTimestamps ==
    {1000 * Micro, 1000 * Micro + 4000, 1005 * Micro - 100, 1005 * Micro,
     1000 * Micro + 6553600}

TickAt(seconds) == (65500 + (seconds - 1000 * Micro) \div 100) % 65536

ConsistentPackets ==
    {Packet("volts", r, 1, s, TickAt(s), 1) :
         r \in RateCodes, s \in ConsistentTimestamps}
    \cup PacketsOf({"furlongs"}, {0}, {1}, {1000 * Micro}, {65500}, {1})

\* timezone offsets east and west of UTC, and a feed for runs under each
ZoneOffsets == {0, 3600, -18000}

ZonePackets ==
    PacketsOf({"volts"}, {0}, {1}, {1000 * Micro + 250000, 1005 * Micro + 250000},
              {50, 65500}, {1, 2})
    \cup PacketsOf({"furlongs"}, {0}, {1}, {1000 * Micro}, {50}, {1})

\* ------------------------------------------------------- the loop's terms
\* line 38: MEDTRONIC_EPOCH + medtronic_timestamp - timezone_offset
UnixTimestamp_plus_tz(seconds, tz) == Time(MEDTRONIC_EPOCH + tz, seconds)
UnixTimestamp_no_epoch(seconds, tz) == Time(0 - tz, seconds)
UnixTimestamp_tz_twice(seconds, tz) == Time(MEDTRONIC_EPOCH - 2 * tz, seconds)

UnixTimestamp(seconds, tz) == Time(MEDTRONIC_EPOCH - tz, seconds)

\* line 46: 250 * (1 << sample_rate)
SamplingFreq(rate) == 250 * (2 ^ rate)

\* line 47: 1.0 / sampling_freq, in microseconds
SamplingPeriod(freq) == Micro \div freq

\* line 48: sampling_period / SYSTEM_TICK_DURATION, in 1/TickScale ticks
TicksPerPoint(period) == (period * TickScale) \div SYSTEM_TICK_DURATION

\* lines 44-48: the rate variables after a packet of rate code `code`
RateUpdate_once(code, cur) ==
    IF cur.sample_rate = None
    THEN [sample_rate |-> Some(code),
          sampling_freq |-> Some(SamplingFreq(code)),
          sampling_period |-> Some(SamplingPeriod(SamplingFreq(code))),
          ticks_per_point |->
              Some(TicksPerPoint(SamplingPeriod(SamplingFreq(code))))]
    ELSE [cur EXCEPT !.sample_rate = Some(code)]

RateUpdate_keeps_ticks(code, cur) ==
    IF Some(code) # cur.sample_rate
    THEN [sample_rate |-> Some(code),
          sampling_freq |-> Some(SamplingFreq(code)),
          sampling_period |-> Some(SamplingPeriod(SamplingFreq(code))),
          ticks_per_point |->
              IF cur.ticks_per_point = None
              THEN Some(TicksPerPoint(SamplingPeriod(SamplingFreq(code))))
              ELSE cur.ticks_per_point]
    ELSE cur

RateUpdate(code, cur) ==
    IF Some(code) # cur.sample_rate
    THEN [sample_rate |-> Some(code),
          sampling_freq |-> Some(SamplingFreq(code)),
          sampling_period |-> Some(SamplingPeriod(SamplingFreq(code))),
          ticks_per_point |->
              Some(TicksPerPoint(SamplingPeriod(SamplingFreq(code))))]
    ELSE cur

\* line 50: the re-sync test
NeedResync_any_drift(chunk, seconds, prev) == chunk = None \/ seconds # prev
NeedResync_unix(chunk, seconds, prev) ==
    chunk = None
        \/ Abs(MEDTRONIC_EPOCH + seconds \div Micro - prev \div Micro) >= 5
NeedResync_7s(chunk, seconds, prev) ==
    chunk = None \/ Abs(seconds - prev) >= 7 * Micro
NeedResync_drift_only(chunk, seconds, prev) ==
    Abs(seconds - prev) >= RESYNC_DRIFT

NeedResync_gt(chunk, seconds, prev) ==
    chunk = None \/ Abs(seconds - prev) > RESYNC_DRIFT

NeedResync(chunk, seconds, prev) ==
    chunk = None \/ Abs(seconds - prev) >= RESYNC_DRIFT

\* line 60: (system_tick_end - system_tick_prev) % SYSTEM_TICK_CLOCK
TicksElapsed_raw(tick_end, tick_prev) == tick_end % SYSTEM_TICK_CLOCK
TicksElapsed_signed(tick_end, tick_prev) == tick_end - tick_prev
TicksElapsed_abs(tick_end, tick_prev) == Abs(tick_end - tick_prev)
TicksElapsed_full_wrap(tick_end, tick_prev) ==
    IF tick_end = tick_prev
    THEN SYSTEM_TICK_CLOCK
    ELSE (tick_end - tick_prev) % SYSTEM_TICK_CLOCK

TicksElapsed_truncating(tick_end, tick_prev) ==
    IF tick_end >= tick_prev
    THEN (tick_end - tick_prev) % SYSTEM_TICK_CLOCK
    ELSE -((tick_prev - tick_end) % SYSTEM_TICK_CLOCK)

TicksElapsed(tick_end, tick_prev) == (tick_end - tick_prev) % SYSTEM_TICK_CLOCK

\* line 68: system_tick_time - (n_points_in_packet - 1) * ticks_per_point
SystemTickStart_n(tick_time, n, tpp) == tick_time * TickScale - n * tpp
SystemTickStart_end(tick_time, n, tpp) == tick_time * TickScale

SystemTickStart(tick_time, n, tpp) == tick_time * TickScale - (n - 1) * tpp

\* line 74: system_tick_start + (i_point * ticks_per_point)
PointTick_whole(tick_start, i, tpp) == tick_start + i * TickScale

PointTick(tick_start, i, tpp) == tick_start + i * tpp

\* lines 71, 75: t_chunk_start + (tick * SYSTEM_TICK_DURATION)
TickTime_millis(chunk, tick) ==
    Time(chunk.s, chunk.us + (tick * 1000) \div TickScale)

TickTime(chunk, tick) ==
    Time(chunk.s, chunk.us + (tick * SYSTEM_TICK_DURATION) \div TickScale)

\* line 78: channels[i_channel]["Value"][i_point] * v_coef
Volts(raw, coef) == Frac(raw * coef.num, coef.den)

\* lines 73, 77: the point and channel after (i, c) in the nested loops
NextIndex_channel_major(i, c, n) ==
    IF i + 1 < n THEN <<i + 1, c>> ELSE <<0, c + 1>>

NextIndex_skip(i, c, n) ==
    IF c + 1 < N_CHANNELS THEN <<i, c + 1>> ELSE <<i + 2, 0>>

NextIndex(i, c, n) ==
    IF c + 1 < N_CHANNELS THEN <<i, c + 1>> ELSE <<i + 1, 0>>

\* the nested loops are over once the indices leave the packet
LoopsDone_short(ic, n) == ic[1] + 1 >= n \/ ic[2] >= N_CHANNELS

LoopsDone(ic, n) == ic[1] >= n \/ ic[2] >= N_CHANNELS

\* ------------------------------------------------------------------- Init
\* lines 21-29, with the timezone offset tz of the device settings
Started(tz) ==
    /\ medtronic_timestamp_prev = None
    /\ n_points_in_packet = None
    /\ packet_number_prev = None
    /\ sample_rate = None
    /\ system_tick_time = 0
    /\ system_tick_prev = None
    /\ t_chunk_start = None
    /\ ticks_per_point = None
    /\ timezone_offset = tz
    /\ packet = None /\ v_coef = None /\ packet_number = None
    /\ medtronic_timestamp = None /\ unix_timestamp = None
    /\ sampling_freq = None /\ sampling_period = None
    /\ system_tick_end = None /\ ticks_elapsed = None
    /\ system_tick_start = None /\ ticks_in_packet = None
    /\ t_packet_start = None /\ i_point = None /\ i_channel = None
    /\ pc = "loop"
    /\ error = None
    /\ trace = <<>>
    /\ out = <<>>
    /\ args = None /\ exit_status = None /\ response = None
    /\ device_id = None /\ i_session = None /\ session_dir = None
    /\ session_id = None /\ i_stream = None
    /\ cli_pc = "start"
    /\ yielded = <<>>
    /\ calls = <<>>

Init == \E tz \in TimezoneOffsets : Started(tz)

\* the start on devices of several timezone offsets
InitZones == \E tz \in ZoneOffsets : Started(tz)

\* the start on a device whose settings hold the timezone offset 0
InitScenario == Started(0)

\* ---------------------------------------------------------------- actions
\* lines 31-34: the next packet's unit tag is not a key of V_UNIT_SCALE; the
\* lookup fails and ends the loop
PacketRejected_late(p) ==
    /\ pc = "loop"
    /\ UNCHANGED cli_vars
    /\ Len(trace) < MaxPackets
    /\ p.Units \notin DOMAIN V_UNIT_SCALE
    /\ packet' = Some(p)
    /\ error' = Some("UnknownUnit")
    /\ pc' = "failed"
    /\ sample_rate' = Some(p.SampleRate)
    /\ UNCHANGED <<medtronic_timestamp_prev, n_points_in_packet,
                   packet_number_prev, system_tick_time, system_tick_prev,
                   t_chunk_start, ticks_per_point, timezone_offset>>
    /\ UNCHANGED <<v_coef, packet_number, medtronic_timestamp, unix_timestamp,
                   sampling_freq, sampling_period, system_tick_end,
                   ticks_elapsed, system_tick_start, ticks_in_packet,
                   t_packet_start, i_point, i_channel, trace, out>>

PacketRejected(p) ==
    /\ pc = "loop"
    /\ UNCHANGED cli_vars
    /\ Len(trace) < MaxPackets
    /\ p.Units \notin DOMAIN V_UNIT_SCALE
    /\ packet' = Some(p)
    /\ error' = Some("UnknownUnit")
    /\ pc' = "failed"
    /\ UNCHANGED globals
    /\ UNCHANGED <<v_coef, packet_number, medtronic_timestamp, unix_timestamp,
                   sampling_freq, sampling_period, system_tick_end,
                   ticks_elapsed, system_tick_start, ticks_in_packet,
                   t_packet_start, i_point, i_channel, trace, out>>

\* lines 31-71: the loop body of the next packet up to the point loop
PacketHeader(p) ==
    /\ pc = "loop"
    /\ UNCHANGED cli_vars
    /\ Len(trace) < MaxPackets
    /\ p.Units \in DOMAIN V_UNIT_SCALE
    /\ LET header == p.Header
           channels == p.ChannelSamples
           seconds == header.timestamp.seconds
           \* lines 40-42
           ts_prev == IF medtronic_timestamp_prev = None
                      THEN Some(seconds) ELSE medtronic_timestamp_prev
           \* lines 44-48
           rate == RateUpdate(p.SampleRate,
                              [sample_rate |-> sample_rate,
                               sampling_freq |-> sampling_freq,
                               sampling_period |-> sampling_period,
                               ticks_per_point |-> ticks_per_point])
           tpp == rate.ticks_per_point
           \* line 50
           resync == NeedResync(t_chunk_start, seconds, Val(ts_prev))
           unix == UnixTimestamp(seconds, timezone_offset)
           chunk == IF resync THEN Some(unix) ELSE t_chunk_start
           tick_time == IF resync THEN 0 ELSE system_tick_time
           tick_prev == IF resync THEN Some(header.systemTick)
                                  ELSE system_tick_prev
           \* lines 59-61
           tick_end == header.systemTick
           elapsed == TicksElapsed(tick_end, Val(tick_prev))
           \* line 67
           n == Len(channels[0].Value)
           tick_start == SystemTickStart(tick_time + elapsed, n, Val(tpp))
       IN  /\ packet' = Some(p)
           /\ v_coef' = Some(V_UNIT_SCALE[p.Units])
           /\ packet_number' = Some(header.dataTypeSequence)
           /\ medtronic_timestamp' = Some(seconds)
           /\ unix_timestamp' = Some(unix)
           /\ medtronic_timestamp_prev' = ts_prev
           /\ sample_rate' = rate.sample_rate
           /\ sampling_freq' = rate.sampling_freq
           /\ sampling_period' = rate.sampling_period
           /\ ticks_per_point' = tpp
           /\ t_chunk_start' = chunk
           /\ system_tick_prev' = tick_prev
           /\ system_tick_end' = Some(tick_end)
           /\ ticks_elapsed' = Some(elapsed)
           /\ system_tick_time' = tick_time + elapsed
           \* lines 63-65
           /\ packet_number_prev' = IF packet_number_prev = None
                                    THEN Some(header.dataTypeSequence)
                                    ELSE packet_number_prev
           /\ n_points_in_packet' = Some(n)
           /\ system_tick_start' = Some(tick_start)
           /\ ticks_in_packet' = Some(n * Val(tpp))
           /\ t_packet_start' = Some(TickTime(Val(chunk), tick_start))
           \* lines 73, 77: enter the loops
           /\ i_point' = Some(0)
           /\ i_channel' = Some(0)
           /\ pc' = IF LoopsDone(<<0, 0>>, n) THEN "tail" ELSE "yield"
           /\ trace' = Append(trace, [packet |-> p, resync |-> resync])
    /\ UNCHANGED <<timezone_offset, error, out>>

\* lines 73-81: yield the point (i_point, i_channel) and step the loops
Yield_updates_prev ==
    /\ pc = "yield"
    /\ UNCHANGED cli_vars
    /\ LET i == Val(i_point)
           c == Val(i_channel)
           n == Val(n_points_in_packet)
           tick == PointTick(Val(system_tick_start), i, Val(ticks_per_point))
           t == TickTime(Val(t_chunk_start), tick)
           v == Volts(Val(packet).ChannelSamples[c].Value[i + 1], Val(v_coef))
           ic == NextIndex(i, c, n)
       IN  /\ out' = Append(out, [k |-> Len(trace), i_point |-> i,
                                  t |-> t, i_channel |-> c, v |-> v])
           /\ i_point' = Some(ic[1])
           /\ i_channel' = Some(ic[2])
           /\ pc' = IF LoopsDone(ic, n) THEN "tail" ELSE "yield"
    /\ system_tick_prev' = system_tick_end
    /\ packet_number_prev' = packet_number
    /\ medtronic_timestamp_prev' = medtronic_timestamp
    /\ UNCHANGED <<n_points_in_packet, sample_rate, system_tick_time,
                   t_chunk_start, ticks_per_point, timezone_offset>>
    /\ UNCHANGED <<packet, v_coef, packet_number, medtronic_timestamp,
                   unix_timestamp, sampling_freq, sampling_period,
                   system_tick_end, ticks_elapsed, system_tick_start,
                   ticks_in_packet, t_packet_start, error, trace>>

Yield ==
    /\ pc = "yield"
    /\ UNCHANGED cli_vars
    /\ LET i == Val(i_point)
           c == Val(i_channel)
           n == Val(n_points_in_packet)
           tick == PointTick(Val(system_tick_start), i, Val(ticks_per_point))
           t == TickTime(Val(t_chunk_start), tick)
           v == Volts(Val(packet).ChannelSamples[c].Value[i + 1], Val(v_coef))
           ic == NextIndex(i, c, n)
       IN  /\ out' = Append(out, [k |-> Len(trace), i_point |-> i,
                                  t |-> t, i_channel |-> c, v |-> v])
           /\ i_point' = Some(ic[1])
           /\ i_channel' = Some(ic[2])
           /\ pc' = IF LoopsDone(ic, n) THEN "tail" ELSE "yield"
    /\ UNCHANGED globals
    /\ UNCHANGED <<packet, v_coef, packet_number, medtronic_timestamp,
                   unix_timestamp, sampling_freq, sampling_period,
                   system_tick_end, ticks_elapsed, system_tick_start,
                   ticks_in_packet, t_packet_start, error, trace>>

\* lines 83-85: the end of the loop body
PacketTail_keeps_first ==
    /\ pc = "tail"
    /\ UNCHANGED cli_vars
    /\ packet_number_prev' = packet_number
    /\ pc' = "loop"
    /\ UNCHANGED <<n_points_in_packet, sample_rate, system_tick_time,
                   t_chunk_start, ticks_per_point, timezone_offset,
                   system_tick_prev, medtronic_timestamp_prev>>
    /\ UNCHANGED <<locals, error, trace, out>>

PacketTail_mixed ==
    /\ pc = "tail"
    /\ UNCHANGED cli_vars
    /\ system_tick_prev' = packet_number
    /\ packet_number_prev' = packet_number
    /\ medtronic_timestamp_prev' = medtronic_timestamp
    /\ pc' = "loop"
    /\ UNCHANGED <<n_points_in_packet, sample_rate, system_tick_time,
                   t_chunk_start, ticks_per_point, timezone_offset>>
    /\ UNCHANGED <<locals, error, trace, out>>

PacketTail ==
    /\ pc = "tail"
    /\ UNCHANGED cli_vars
    /\ system_tick_prev' = system_tick_end
    /\ packet_number_prev' = packet_number
    /\ medtronic_timestamp_prev' = medtronic_timestamp
    /\ pc' = "loop"
    /\ UNCHANGED <<n_points_in_packet, sample_rate, system_tick_time,
                   t_chunk_start, ticks_per_point, timezone_offset>>
    /\ UNCHANGED <<locals, error, trace, out>>

\* line 31: the record holds no further packet
EndOfRecord ==
    /\ pc = "loop"
    /\ UNCHANGED cli_vars
    /\ pc' = "done"
    /\ UNCHANGED <<globals, locals, error, trace, out>>

Next ==
    \/ \E p \in ClockPackets : PacketRejected(p)
    \/ \E p \in ClockPackets : PacketHeader(p)
    \/ Yield
    \/ PacketTail
    \/ EndOfRecord

Spec == Init /\ [][Next]_vars

\* the same loop over the feed of every unit tag
NextUnits ==
    \/ \E p \in UnitPackets : PacketRejected(p)
    \/ \E p \in UnitPackets : PacketHeader(p)
    \/ Yield
    \/ PacketTail
    \/ EndOfRecord

\* the consumer keeps taking records and the record's packets run out: the
\* loop keeps stepping while it can
SpecLive == Init /\ [][Next]_vars /\ WF_vars(Next)

SpecUnits == Init /\ [][NextUnits]_vars

\* the same loop over the packets of the end-to-end scenario, timezone
\* offset 0
NextScenario ==
    \/ \E p \in ScenarioPackets : PacketRejected(p)
    \/ \E p \in ScenarioPackets : PacketHeader(p)
    \/ Yield
    \/ PacketTail
    \/ EndOfRecord

SpecScenario == InitScenario /\ [][NextScenario]_vars

\* the same loop over the packets of the device with consistent clocks
NextConsistent ==
    \/ \E p \in ConsistentPackets : PacketRejected(p)
    \/ \E p \in ConsistentPackets : PacketHeader(p)
    \/ Yield
    \/ PacketTail
    \/ EndOfRecord

SpecConsistent == Init /\ [][NextConsistent]_vars

\* the same loop under several timezone offsets
NextZones ==
    \/ \E p \in ZonePackets : PacketRejected(p)
    \/ \E p \in ZonePackets : PacketHeader(p)
    \/ Yield
    \/ PacketTail
    \/ EndOfRecord

SpecZones == InitZones /\ [][NextZones]_vars

\* the same loop over the feed of every sequence number
NextSeq ==
    \/ \E p \in SeqPackets : PacketRejected(p)
    \/ \E p \in SeqPackets : PacketHeader(p)
    \/ Yield
    \/ PacketTail
    \/ EndOfRecord

SpecSeq == Init /\ [][NextSeq]_vars

\* ------------------------------------------------ the session downloader
\* src/unnamed/part_000.  A string is the sequence of its characters, a
\* path the sequence of its components; times are whole seconds.

\* the sessions a listing response may hold
MaxSessions == 2

\* line 52: the clock reading taken when the script starts
NOW == 1700000000

\* line 166: the longest accepted range
MAX_RANGE == 90 * 86400

\* line 209: the seconds of one day of a relative offset
DAY == 86400

\* the literals 'device-' (line 149) and 'dataset-' (line 184)
DevicePrefix == <<"d", "e", "v", "i", "c", "e", "-">>
DatasetPrefix == <<"d", "a", "t", "a", "s", "e", "t", "-">>

DIGITS == <<"0", "1", "2", "3", "4", "5", "6", "7", "8", "9">>

\* str(n) of a whole number n >= 0, as an f-string formats it (line 184)
RECURSIVE Decimal(_)
Decimal(n) ==
    IF n < 10 THEN <<DIGITS[n + 1]>>
    ELSE Append(Decimal(n \div 10), DIGITS[(n % 10) + 1])

\* int(s) and float(s) of a string of decimal digits (lines 209, 212)
RECURSIVE ParseDigits(_)
ParseDigits(s) ==
    IF Len(s) = 1 THEN (CHOOSE d \in 0..9 : DIGITS[d + 1] = s[1])
    ELSE ParseDigits(SubSeq(s, 1, Len(s) - 1)) * 10
             + (CHOOSE d \in 0..9 : DIGITS[d + 1] = s[Len(s)])

\* str.lower() on the letters of the time arguments
Lower(s) ==
    [i \in DOMAIN s |->
        CASE s[i] = "N" -> "n"
          [] s[i] = "O" -> "o"
          [] s[i] = "W" -> "w"
          [] s[i] = "D" -> "d"
          [] OTHER -> s[i]]

Range(s) == {s[i] : i \in DOMAIN s}

StartsWith(s, prefix) ==
    Len(s) >= Len(prefix) /\ SubSeq(s, 1, Len(prefix)) = prefix

\* s.split(sep)[-1]
RECURSIVE LastOfSplit(_, _)
LastOfSplit(s, sep) ==
    IF s = <<>> \/ s[Len(s)] = sep THEN <<>>
    ELSE Append(LastOfSplit(SubSeq(s, 1, Len(s) - 1), sep), s[Len(s)])

\* lines 201-216: 'now', a relative offset in days '-<n>d', or a UNIX
\* timestamp (the ISO format of line 214 reads the local timezone and is
\* left out of the arguments drawn)
timestamp_arg(t_str) ==
    IF Lower(t_str) = <<"n", "o", "w">> THEN NOW
    ELSE IF Head(t_str) = "-" /\ t_str[Len(t_str)] = "d"
    THEN NOW - (ParseDigits(SubSeq(t_str, 2, Len(t_str) - 1)) * DAY)
    ELSE ParseDigits(t_str)

\* line 166: the test of the time range
RangeTooLong_ge(a) == a.end_time - a.start_time >= MAX_RANGE

RangeTooLong(a) == a.end_time - a.start_time > MAX_RANGE

\* lines 144-150: the filter the generator compares with; a device id of
\* None or '' is no filter
Truthy(o) == o # None /\ Val(o) # <<>>

NormalisedDeviceId_whole(d) ==
    IF ~Truthy(d) THEN d
    ELSE IF ~StartsWith(Val(d), DevicePrefix) THEN Some(DevicePrefix \o Val(d))
    ELSE d

NormalisedDeviceId(d) ==
    IF ~Truthy(d) THEN d
    ELSE LET last == IF "," \in Range(Val(d)) THEN LastOfSplit(Val(d), ",")
                     ELSE Val(d)
         IN  IF ~StartsWith(last, DevicePrefix) THEN Some(DevicePrefix \o last)
             ELSE Some(last)

\* lines 153-156: the session is passed over
Skipped(d, session) ==
    Truthy(d) /\ Val(d) # LastOfSplit(session.device.id, ",")

\* lines 181-186: the directory of a session; startTime is held in
\* microseconds, int(startTime * 1000) drops what is below a millisecond
SessionDir_keeps_prefix(target_path, data_session) ==
    LET session_t == data_session.startTime \div 1000
        filename == Decimal(session_t) \o <<"_">> \o data_session.id
    IN  target_path \o <<LastOfSplit(data_session.device.id, ","), filename>>

SessionDir(target_path, data_session) ==
    LET session_t == data_session.startTime \div 1000
        filename == Decimal(session_t) \o <<"_">>
                        \o SubSeq(data_session.id, Len(DatasetPrefix) + 1,
                                  Len(data_session.id))
    IN  target_path \o <<LastOfSplit(data_session.device.id, ","), filename>>

\* the calls main makes to the file system and the Rune API
MakeDirs(path) ==
    [op |-> "makedirs", path |-> path, session_id |-> None, stream_name |-> None]
Query ==
    [op |-> "query", path |-> <<>>, session_id |-> None, stream_name |-> None]
Download(file_path, id, stream_name) ==
    [op |-> "download", path |-> file_path, session_id |-> Some(id),
     stream_name |-> Some(stream_name)]

\* ----------------------------------------------- the downloader's inputs
\* the directory given as TARGET_PATH
TargetPath == << <<"o", "u", "t">> >>

\* one session of a listing response (lines 118-131)
Session(id, device, startTime, streams) ==
    [id |-> DatasetPrefix \o id, device |-> [id |-> device],
     startTime |-> startTime,
     streams |-> [i \in DOMAIN streams |-> [streamName |-> streams[i]]]]

\* sessions of the devices x and y of patient p, one device id without
\* the patient, one without the 'device-' prefix, one session without streams
Sessions ==
    {Session(<<"a">>, <<"p", ",">> \o DevicePrefix \o <<"x">>, 1500000,
             << <<"l", "f", "p">>, <<"a", "c", "c">> >>),
     Session(<<"b">>, <<"p", ",">> \o DevicePrefix \o <<"y">>, 2000999,
             << <<"l", "f", "p">> >>),
     Session(<<"c">>, DevicePrefix \o <<"x">>, 12000000, << >>),
     Session(<<"d">>, <<"p", ",", "x">>, 0, << <<"a", "c", "c">> >>)}

RECURSIVE SeqsUpTo(_, _)
SeqsUpTo(S, n) ==
    IF n = 0 THEN {<<>>}
    ELSE LET shorter == SeqsUpTo(S, n - 1)
         IN  shorter \cup {Append(q, x) : q \in shorter, x \in S}

Responses == SeqsUpTo(Sessions, MaxSessions)

\* --device-id: absent, empty, bare, prefixed, and with the patient
DeviceIdArgs ==
    {None, Some(<<>>), Some(<<"x">>), Some(DevicePrefix \o <<"x">>),
     Some(<<"p", ",">> \o DevicePrefix \o <<"y">>), Some(<<"p", ",", "x">>)}

\* --start-time and --end-time: the last 30, 90 and 91 days, 90 days and
\* 90 days and a second in UNIX timestamps, and a range that ends before
\* it starts
TimeArgs ==
    {<< <<"-", "3", "0", "d">>, <<"n", "o", "w">> >>,
     << <<"-", "9", "0", "d">>, <<"N", "o", "w">> >>,
     << <<"-", "9", "1", "d">>, <<"n", "o", "w">> >>,
     << Decimal(NOW - MAX_RANGE), Decimal(NOW) >>,
     << Decimal(NOW - MAX_RANGE - 1), <<"n", "o", "w">> >>,
     << <<"n", "o", "w">>, <<"-", "9", "1", "d">> >>}

Argv ==
    {[target_path |-> TargetPath, device_id |-> d, start_time |-> t[1],
      end_time |-> t[2]] : d \in DeviceIdArgs, t \in TimeArgs}

\* ---------------------------------------------- the downloader's actions
\* lines 222-281: parse the command line
ParseArgs(argv) ==
    /\ cli_pc = "start"
    /\ args' = Some([target_path |-> argv.target_path,
                     device_id |-> argv.device_id,
                     start_time |-> timestamp_arg(argv.start_time),
                     end_time |-> timestamp_arg(argv.end_time)])
    /\ cli_pc' = "main"
    /\ UNCHANGED <<exit_status, response, device_id, i_session, session_dir,
                   session_id, i_stream, yielded, calls>>
    /\ UNCHANGED ingest_vars

\* lines 166-168: the range is too long; exit with status 2
MainRejects ==
    /\ cli_pc = "main"
    /\ RangeTooLong(Val(args))
    /\ exit_status' = Some(2)
    /\ cli_pc' = "exited"
    /\ UNCHANGED <<args, response, device_id, i_session, session_dir,
                   session_id, i_stream, yielded, calls>>
    /\ UNCHANGED ingest_vars

\* lines 170-178 and 103-150: create the target directory, and on the
\* first pull of the generator query the sessions and normalise the filter
MainListsSessions(r) ==
    /\ cli_pc = "main"
    /\ ~RangeTooLong(Val(args))
    /\ calls' = calls \o <<MakeDirs(Val(args).target_path), Query>>
    /\ response' = Some(r)
    /\ device_id' = NormalisedDeviceId(Val(args).device_id)
    /\ i_session' = Some(1)
    /\ cli_pc' = "sessions"
    /\ UNCHANGED <<args, exit_status, session_dir, session_id, i_stream,
                   yielded>>
    /\ UNCHANGED ingest_vars

\* lines 152-156: the generator passes over a session of another device
SessionSkipped ==
    /\ cli_pc = "sessions"
    /\ Val(i_session) <= Len(Val(response))
    /\ Skipped(device_id, Val(response)[Val(i_session)])
    /\ i_session' = Some(Val(i_session) + 1)
    /\ UNCHANGED <<args, exit_status, response, device_id, session_dir,
                   session_id, i_stream, cli_pc, yielded, calls>>
    /\ UNCHANGED ingest_vars

\* lines 152-158 and 180-188: the generator yields a session and main
\* creates its directory
SessionYielded ==
    /\ cli_pc = "sessions"
    /\ Val(i_session) <= Len(Val(response))
    /\ ~Skipped(device_id, Val(response)[Val(i_session)])
    /\ LET data_session == Val(response)[Val(i_session)]
       IN  /\ yielded' = Append(yielded, data_session)
           /\ session_id' = Some(data_session.id)
           /\ session_dir' = Some(SessionDir(Val(args).target_path, data_session))
           /\ calls' = Append(calls, MakeDirs(Val(session_dir')))
    /\ i_stream' = Some(1)
    /\ cli_pc' = "streams"
    /\ UNCHANGED <<args, exit_status, response, device_id, i_session>>
    /\ UNCHANGED ingest_vars

\* lines 190-198 and 59-87: download the next stream of the session
StreamDownloaded ==
    /\ cli_pc = "streams"
    /\ Val(i_stream) <= Len(Val(response)[Val(i_session)].streams)
    /\ LET stream == Val(response)[Val(i_session)].streams[Val(i_stream)]
           stream_name == stream.streamName
       IN  calls' = Append(calls, Download(Append(Val(session_dir), stream_name),
                                           Val(session_id), stream_name))
    /\ i_stream' = Some(Val(i_stream) + 1)
    /\ UNCHANGED <<args, exit_status, response, device_id, i_session,
                   session_dir, session_id, cli_pc, yielded>>
    /\ UNCHANGED ingest_vars

\* line 190: the session has no further stream; main pulls the generator
StreamsExhausted ==
    /\ cli_pc = "streams"
    /\ Val(i_stream) > Len(Val(response)[Val(i_session)].streams)
    /\ i_session' = Some(Val(i_session) + 1)
    /\ cli_pc' = "sessions"
    /\ UNCHANGED <<args, exit_status, response, device_id, session_dir,
                   session_id, i_stream, yielded, calls>>
    /\ UNCHANGED ingest_vars

\* lines 152 and 180: the response holds no further session; main returns
MainReturns ==
    /\ cli_pc = "sessions"
    /\ Val(i_session) > Len(Val(response))
    /\ exit_status' = Some(0)
    /\ cli_pc' = "returned"
    /\ UNCHANGED <<args, response, device_id, i_session, session_dir,
                   session_id, i_stream, yielded, calls>>
    /\ UNCHANGED ingest_vars

NextCli ==
    \/ \E argv \in Argv : ParseArgs(argv)
    \/ MainRejects
    \/ \E r \in Responses : MainListsSessions(r)
    \/ SessionSkipped
    \/ SessionYielded
    \/ StreamDownloaded
    \/ StreamsExhausted
    \/ MainReturns

SpecCli == Init /\ [][NextCli]_vars

\* ------------------------------------------------------------- properties
\* the k-th packet taken from the record, and its header fields
TakenPacket(k) == trace[k].packet
TakenTick(k) == trace[k].packet.Header.systemTick
TakenSeconds(k) == trace[k].packet.Header.timestamp.seconds
TakenRate(k) == trace[k].packet.SampleRate
TakenPoints(k) == Len(trace[k].packet.ChannelSamples[0].Value)
Resynced(k) == trace[k].resync

\* the tick the k-th packet's delta is measured from: its own tick when it
\* re-synced, the tick of the packet before it otherwise
LastTick(k) == IF Resynced(k) THEN TakenTick(k) ELSE TakenTick(k - 1)

\* the residue of d modulo 65536 for -65536 < d < 65536, without `%`
Wrap16(d) == IF d < 0 THEN d + 65536 ELSE d

\* C1: the per-packet ticks_elapsed equals (current_tick - last_tick) mod
\* 65536, lies in 0..65535 and is never negative, also when the counter has
\* rolled over; last_tick = 65500 and current_tick = 10 give 46.
C1_TicksElapsedWraps ==
    trace # <<>> =>
        LET k == Len(trace)
            e == Val(ticks_elapsed)
        IN  /\ e \in 0 .. 65535
            /\ e = Wrap16(TakenTick(k) - LastTick(k))
            /\ (LastTick(k) = 65500 /\ TakenTick(k) = 10) => e = 46

C1_Witness ==
    /\ Len(trace) = 2
    /\ ~Resynced(2)
    /\ TakenTick(1) = 65500
    /\ TakenTick(2) = 10
    /\ ticks_elapsed = Some(46)
    /\ system_tick_time = 46

\* C2: a packet triggers a re-sync if and only if it is the first packet of
\* the stream or its device timestamp differs from the preceding packet's by
\* 5 seconds or more, forward or backward; a difference of exactly 5.0 s
\* re-syncs and one of 4.999999 s does not.
C2_ResyncIffFirstOrDrift ==
    \A k \in 1 .. Len(trace) :
        /\ Resynced(k) <=>
               (k = 1 \/ TakenSeconds(k) - TakenSeconds(k - 1) >= 5000000
                      \/ TakenSeconds(k - 1) - TakenSeconds(k) >= 5000000)
        /\ (k > 1 /\ Abs(TakenSeconds(k) - TakenSeconds(k - 1)) = 5000000)
               => Resynced(k)
        /\ (k > 1 /\ Abs(TakenSeconds(k) - TakenSeconds(k - 1)) = 4999999)
               => ~Resynced(k)

C2_Witness ==
    /\ Len(trace) = 2
    /\ TakenSeconds(1) - TakenSeconds(2) = 5000000
    /\ Resynced(2)
    /\ system_tick_time = 0
    /\ pc = "loop"

\* C3: after a packet that triggers a re-sync, accumulated_ticks is 0,
\* last_tick is that packet's tick and chunk_origin_time equals
\* 951868800 + device_timestamp - timezone_offset of that packet.
C3_ResyncResets ==
    (trace # <<>> /\ Resynced(Len(trace))) =>
        LET k == Len(trace)
        IN  /\ system_tick_time = 0
            /\ system_tick_prev = Some(TakenTick(k))
            /\ t_chunk_start =
                   Some([s |-> 951868800 + (TakenSeconds(k) \div 1000000)
                                - timezone_offset,
                         us |-> TakenSeconds(k) % 1000000])

C3_Witness ==
    /\ Len(trace) = 2
    /\ Resynced(2)
    /\ timezone_offset = 3600
    /\ TakenSeconds(1) = 1005000000
    /\ TakenSeconds(2) = 1000000000
    /\ TakenTick(1) # TakenTick(2)
    /\ t_chunk_start = Some([s |-> 951866200, us |-> 0])
    /\ pc = "loop"

\* the points yielded for the k-th packet
PointsOf(k) == {j \in 1 .. Len(out) : out[j].k = k}

\* the point yielded last.  Every point is the last one in the state its
\* yield leaves, and the points before it in out are the points yielded
\* before it, so a property of every earlier point and the last point, true
\* in every reachable state, is a property of every two points in the order
\* of their yields.
Newest == out[Len(out)]

\* the tick delta of the k-th packet (k > 1, no re-sync), from the headers
TickDelta(k) == Wrap16(TakenTick(k) - TakenTick(k - 1))

\* ticks per sample at rate code r: (1 / (250 * 2^r)) / 0.0001 = 40 / 2^r,
\* and the sample period in microseconds, for the rate codes 0 and 1
TicksPerSampleTimes2(r) == IF r = 0 THEN 80 ELSE 40
SamplePeriodMicros(r) == IF r = 0 THEN 4000 ELSE 2000

\* x is a point of the packet before y's packet, and y's packet did not
\* re-sync
NextPacketSameChunk(x, y) == y.k = x.k + 1 /\ ~Resynced(y.k)

\* C4 as stated: for two consecutive packets of one chunk, every timestamp
\* emitted for the second is strictly greater than every timestamp emitted
\* for the first.
C4_Original ==
    out # <<>> =>
        \A a \in 1 .. Len(out) :
            NextPacketSameChunk(out[a], Newest) => TimeLess(out[a].t, Newest.t)

\* the tick delta of the k-th packet exceeds (n - 1) * ticks_per_sample for
\* its n samples
TicksCoverPacket(k) ==
    2 * TickDelta(k) > (TakenPoints(k) - 1) * TicksPerSampleTimes2(TakenRate(k))

\* C4 (amended): for two consecutive packets of one chunk, where the tick
\* delta of the second exceeds (n - 1) * ticks_per_sample for its n samples,
\* every timestamp emitted for the second is strictly greater than every
\* timestamp emitted for the first.
C4_MonotonicWhenTicksCoverPacket ==
    out # <<>> =>
        \A a \in 1 .. Len(out) :
            (NextPacketSameChunk(out[a], Newest) /\ TicksCoverPacket(Newest.k))
                => TimeLess(out[a].t, Newest.t)

C4_Witness ==
    /\ Len(trace) = 2
    /\ ~Resynced(2)
    /\ TakenPoints(1) = 2
    /\ TakenPoints(2) = 2
    /\ TakenRate(2) = 1
    /\ TakenTick(1) = 10
    /\ TakenTick(2) = 50
    /\ Cardinality(PointsOf(2)) = 2 * N_CHANNELS
    /\ \A a \in PointsOf(1), b \in PointsOf(2) : TimeLess(out[a].t, out[b].t)
    /\ pc = "tail"

\* y is the sample after x in one packet
NextSampleInPacket(x, y) == y.k = x.k /\ y.i_point = x.i_point + 1

\* x is a last sample of a packet and y a first sample of the next packet,
\* which continues the chunk at the same rate
NextSampleAcrossPackets(x, y) ==
    /\ y.k = x.k + 1
    /\ x.i_point = TakenPoints(x.k) - 1
    /\ y.i_point = 0
    /\ ~Resynced(y.k)
    /\ TakenRate(y.k) = TakenRate(x.k)

\* C5 as stated, for the samples x and y: within one chunk and under an
\* unchanged sample rate, consecutive sample timestamps, including the last
\* sample of one packet and the first sample of the next, differ by exactly
\* ticks_per_sample * TICK_DURATION.
EvenlySpaced(x, y) ==
    (NextSampleInPacket(x, y) \/ NextSampleAcrossPackets(x, y)) =>
        MicrosBetween(x.t, y.t) = SamplePeriodMicros(TakenRate(y.k))

C5_Original ==
    out # <<>> =>
        \A a \in 1 .. Len(out) : EvenlySpaced(out[a], Newest)

\* the amended spacing of the samples x and y
SpacedByTicks(x, y) ==
    /\ NextSampleInPacket(x, y) =>
           MicrosBetween(x.t, y.t) = SamplePeriodMicros(TakenRate(y.k))
    /\ NextSampleAcrossPackets(x, y) =>
           LET gap == MicrosBetween(x.t, y.t)
               tps2 == TicksPerSampleTimes2(TakenRate(y.k))
           IN  /\ 2 * gap = (2 * TickDelta(y.k) - (TakenPoints(y.k) - 1) * tps2) * 100
               /\ gap = SamplePeriodMicros(TakenRate(y.k))
                      <=> 2 * TickDelta(y.k) = TakenPoints(y.k) * tps2

\* C5 (amended): within one chunk and under an unchanged sample rate,
\* consecutive sample timestamps of one packet differ by exactly
\* ticks_per_sample * TICK_DURATION; the last sample of one packet and the
\* first sample of the next are (ticks_elapsed - (n - 1) * ticks_per_sample)
\* * TICK_DURATION apart, which is ticks_per_sample * TICK_DURATION exactly
\* when the next packet's ticks_elapsed equals n * ticks_per_sample.
C5_EvenSpacingWhenTicksMatch ==
    out # <<>> =>
        \A a \in 1 .. Len(out) : SpacedByTicks(out[a], Newest)

C5_Witness ==
    /\ Len(trace) = 2
    /\ ~Resynced(2)
    /\ TakenRate(1) = 0
    /\ TakenRate(2) = 0
    /\ TakenPoints(1) = 2
    /\ TakenPoints(2) = 1
    /\ TakenTick(1) = 10
    /\ TakenTick(2) = 50
    /\ \E a \in PointsOf(1), b \in PointsOf(2) :
           /\ out[a].i_point = 1
           /\ MicrosBetween(out[a].t, out[b].t) = 4000
    /\ pc = "loop"

\* the spacing of the samples x and y of one packet, by its rate code
SpacedByRate(x, y) ==
    NextSampleInPacket(x, y) =>
        /\ TakenRate(y.k) = 0 => MicrosBetween(x.t, y.t) = 4000
        /\ TakenRate(y.k) = 1 => MicrosBetween(x.t, y.t) = 2000

\* C6: within a single packet, sample i+1's timestamp exceeds sample i's by
\* exactly ticks_per_sample * 0.0001 s for the rate in force for that
\* packet; for rate code 0 the sampling frequency is 250, ticks_per_sample
\* is 40 and the spacing is 0.004 s.
C6_SpacingInsidePacket ==
    /\ out # <<>> =>
           \A a \in 1 .. Len(out) : SpacedByRate(out[a], Newest)
    /\ (trace # <<>> /\ TakenRate(Len(trace)) = 0) =>
           /\ sampling_freq = Some(250)
           /\ Val(ticks_per_point) = 40 * TickScale

C6_Witness ==
    /\ Len(trace) = 2
    /\ TakenRate(1) = 1
    /\ TakenRate(2) = 0
    /\ TakenPoints(2) = 2
    /\ \E a \in PointsOf(2), b \in PointsOf(2) :
           /\ out[a].i_point = 0
           /\ out[b].i_point = 1
           /\ MicrosBetween(out[a].t, out[b].t) = 4000
    /\ ticks_per_point = Some(40 * TickScale)

\* the rate variables hold the values derived from rate code r
RateDerived(r) ==
    /\ sample_rate = Some(r)
    /\ Val(sampling_freq) = 250 * 2 ^ r
    /\ Val(sampling_freq) * Val(sampling_period) = 1000000
    /\ Val(ticks_per_point) * 100 = Val(sampling_period) * TickScale

\* a step that takes a packet through the rate update
TakesPacket == Len(trace') = Len(trace) + 1

\* C7: after every processed packet the stored rate code equals that
\* packet's rate code and ticks_per_sample equals (1 / (250 * 2^rate_code))
\* / 0.0001 for it; the rate-derived values are rewritten only on packets
\* whose rate code differs from the stored one and are left unchanged
\* otherwise.
C7_RateState ==
    /\ [](trace # <<>> => RateDerived(TakenRate(Len(trace))))
    /\ [][((TakesPacket /\ sample_rate = Some(TakenRate(Len(trace)))')
               \/ ~TakesPacket)
          => UNCHANGED <<sample_rate, sampling_freq, sampling_period,
                         ticks_per_point>>]_vars

C7_Witness ==
    /\ Len(trace) = 2
    /\ TakenRate(1) = 0
    /\ TakenRate(2) = 1
    /\ sample_rate = Some(1)
    /\ sampling_freq = Some(500)
    /\ ticks_per_point = Some(20 * TickScale)
    /\ pc = "loop"

\* the raw value behind the j-th yielded point, and its packet's unit tag
RawOf(j) ==
    TakenPacket(out[j].k).ChannelSamples[out[j].i_channel].Value[out[j].i_point + 1]
UnitOf(j) == TakenPacket(out[j].k).Units

\* C8: every emitted voltage equals the raw sample value times the fixed
\* multiplier of the packet's unit tag: 1 for volts, 1e-3 for millivolts,
\* 1e-6 for microvolts, 1e3 for kilovolts, 1e6 for megavolts, whatever the
\* clock and rate state.
C8_VoltageScaled ==
    \A j \in 1 .. Len(out) :
        LET raw == RawOf(j)
            v == out[j].v
        IN  /\ UnitOf(j) = "volts" => (v.den = 1 /\ v.num = raw)
            /\ UnitOf(j) = "kilovolts" => (v.den = 1 /\ v.num = raw * 1000)
            /\ UnitOf(j) = "megavolts" => (v.den = 1 /\ v.num = raw * 1000000)
            /\ UnitOf(j) = "millivolts" =>
                   /\ v.den \in 1 .. 1000
                   /\ Abs(v.num) <= Abs(raw)
                   /\ v.num * 1000 = raw * v.den
            /\ UnitOf(j) = "microvolts" =>
                   /\ v.den \in 1 .. 1000000
                   /\ Abs(v.num) <= Abs(raw)
                   /\ v.num * 1000000 = raw * v.den
            /\ UnitOf(j) \in {"volts", "millivolts", "microvolts", "kilovolts",
                              "megavolts"}

C8_Witness ==
    /\ Len(trace) = 2
    /\ TakenPacket(1).Units = "microvolts"
    /\ TakenPacket(2).Units = "kilovolts"
    /\ TakenRate(1) # TakenRate(2)
    /\ Resynced(2)
    /\ \E a \in PointsOf(1), b \in PointsOf(2) :
           /\ RawOf(a) = 6 /\ out[a].v = [num |-> 3, den |-> 500000]
           /\ RawOf(b) = -3 /\ out[b].v = [num |-> -3000, den |-> 1]

\* C9: a packet whose unit tag is not one of the five known units fails with
\* UnknownUnit, emits no record and leaves chunk_origin_time,
\* accumulated_ticks, last_tick, last_device_timestamp, the rate code and
\* ticks_per_sample exactly as they were before the packet.
C9_UnknownUnitRejected ==
    [][(/\ pc = "loop"
        /\ pc' \notin {"loop", "done"}
        /\ Val(packet').Units \notin {"volts", "millivolts", "microvolts",
                                      "kilovolts", "megavolts"})
       => /\ pc' = "failed"
          /\ error' = Some("UnknownUnit")
          /\ out' = out
          /\ t_chunk_start' = t_chunk_start
          /\ system_tick_time' = system_tick_time
          /\ system_tick_prev' = system_tick_prev
          /\ medtronic_timestamp_prev' = medtronic_timestamp_prev
          /\ sample_rate' = sample_rate
          /\ ticks_per_point' = ticks_per_point]_vars

C9_Witness ==
    /\ pc = "failed"
    /\ error = Some("UnknownUnit")
    /\ Val(packet).Units = "furlongs"
    /\ Len(trace) = 1
    /\ TakenRate(1) = 1
    /\ sample_rate = Some(1)
    /\ Len(out) = TakenPoints(1) * N_CHANNELS

\* C10: records are emitted packet by packet in input order, and within a
\* packet in increasing sample index then increasing channel index, so that
\* the (timestamp, channel_index) pairs of one packet are strictly
\* increasing lexicographically; no record of packet k+1 is emitted before
\* the last record of packet k.
C10_EmissionOrder ==
    /\ out # <<>> => (out[1].k = 1 /\ out[1].i_point = 0 /\ out[1].i_channel = 0)
    /\ Len(out) > 1 =>
           LET a == out[Len(out) - 1]
               b == Newest
           IN  \/ /\ b.k = a.k
                  /\ \/ b.i_point = a.i_point /\ b.i_channel = a.i_channel + 1
                     \/ b.i_point = a.i_point + 1 /\ b.i_channel = 0
                                                  /\ a.i_channel = 3
                  /\ \/ TimeLess(a.t, b.t)
                     \/ a.t = b.t /\ a.i_channel < b.i_channel
               \/ /\ b.k = a.k + 1
                  /\ a.i_point = TakenPoints(a.k) - 1
                  /\ a.i_channel = 3
                  /\ b.i_point = 0
                  /\ b.i_channel = 0

C10_Witness ==
    /\ Len(trace) = 2
    /\ TakenPoints(1) = 2
    /\ TakenPoints(2) = 2
    /\ Len(out) = 4 * N_CHANNELS
    /\ out[2 * N_CHANNELS].k = 1
    /\ out[2 * N_CHANNELS + 1].k = 2
    /\ pc = "tail"

\* the channel indices of the k-th packet
ChannelsOf(k) == DOMAIN TakenPacket(k).ChannelSamples

\* C11: for a packet with channel_count channels of n samples each, exactly
\* n * channel_count records are emitted, one for each (sample index,
\* channel index) pair and none twice, with n taken from the first channel's
\* length.  Stated where the packet's loops are over.
C11_OneRecordPerPair ==
    pc = "tail" =>
        LET k == Len(trace)
            n == Len(TakenPacket(k).ChannelSamples[0].Value)
            emitted == PointsOf(k)
        IN  /\ n_points_in_packet = Some(n)
            /\ Cardinality(emitted) = n * Cardinality(ChannelsOf(k))
            /\ \A i \in 0 .. n - 1, c \in ChannelsOf(k) :
                   Cardinality({j \in emitted : /\ out[j].i_point = i
                                                /\ out[j].i_channel = c}) = 1

C11_Witness ==
    /\ pc = "tail"
    /\ Len(trace) = 2
    /\ TakenPoints(1) = 1
    /\ TakenPoints(2) = 2
    /\ Cardinality(PointsOf(1)) = N_CHANNELS
    /\ Cardinality(PointsOf(2)) = 2 * N_CHANNELS
    /\ Len(out) = 3 * N_CHANNELS

\* the k-th packet taken is the scenario's packet of device timestamp
\* `seconds` (microseconds) and tick `tick`
ScenarioPacket(k, seconds, tick) ==
    /\ Len(trace) >= k
    /\ TakenSeconds(k) = seconds
    /\ TakenTick(k) = tick
    /\ TakenRate(k) = 0

\* the scenario's first packet: device_timestamp 1000.0, tick 100, rate
\* code 0, two samples per channel, timezone offset 0
ScenarioFirstPacket ==
    /\ timezone_offset = 0
    /\ ScenarioPacket(1, 1000000000, 100)
    /\ TakenPoints(1) = 2

\* the timestamps of the records of sample i of the k-th packet
TimesOf(k, i) == {out[j].t : j \in {a \in PointsOf(k) : out[a].i_point = i}}

\* C12 as stated: with timezone offset 0 and a first packet having
\* device_timestamp=1000.0, tick=100, rate code 0 and two samples per
\* channel, the chunk origin is 951869800.0 and the first sample's timestamp
\* is 951869800.0 + (100 - 1*40)*0.0001 = 951869800.006.
C12_Original ==
    (ScenarioFirstPacket /\ Len(trace) = 1 /\ pc = "tail") =>
        /\ t_chunk_start = Some([s |-> 951869800, us |-> 0])
        /\ TimesOf(1, 0) = {[s |-> 951869800, us |-> 6000]}

\* C12 (amended): with timezone offset 0 and a first packet having
\* device_timestamp=1000.0, tick=100, rate code 0 and two samples per
\* channel, the chunk origin is 951869800.0, accumulated_ticks is 0 after the
\* packet's forced re-sync, and the first sample's timestamp is
\* 951869800.0 + (0 - 1*40)*0.0001 = 951869799.996; the second sample's is
\* 951869800.0.
C12_FirstPacketScenario ==
    (ScenarioFirstPacket /\ Len(trace) = 1 /\ pc = "tail") =>
        /\ t_chunk_start = Some([s |-> 951869800, us |-> 0])
        /\ system_tick_time = 0
        /\ TimesOf(1, 0) = {[s |-> 951869799, us |-> 996000]}
        /\ TimesOf(1, 1) = {[s |-> 951869800, us |-> 0]}

C12_Witness ==
    /\ ScenarioFirstPacket
    /\ Len(trace) = 1
    /\ pc = "tail"
    /\ Len(out) = 2 * N_CHANNELS
    /\ out[1].t = [s |-> 951869799, us |-> 996000]
    /\ t_chunk_start = Some([s |-> 951869800, us |-> 0])

\* C13: after a first packet with device_timestamp=1000.0 and tick=100, a
\* second packet with device_timestamp=1000.5 and tick=140 triggers no
\* re-sync, has ticks_elapsed=40, leaves accumulated_ticks=40, and a
\* single-sample packet is timestamped chunk_origin_time + 40*0.0001.
C13_SecondPacketScenario ==
    (/\ ScenarioPacket(1, 1000000000, 100)
     /\ ScenarioPacket(2, 1000500000, 140)
     /\ Len(trace) = 2) =>
        /\ ~Resynced(2)
        /\ ticks_elapsed = Some(40)
        /\ system_tick_time = 40
        /\ (TakenPoints(2) = 1 /\ pc = "tail") =>
               LET chunk == Val(t_chunk_start)
               IN  /\ TimesOf(2, 0) = {[s |-> chunk.s, us |-> chunk.us + 4000]}
                   /\ chunk = [s |-> 951868800 + 1000 - timezone_offset, us |-> 0]

C13_Witness ==
    /\ ScenarioPacket(1, 1000000000, 100)
    /\ ScenarioPacket(2, 1000500000, 140)
    /\ Len(trace) = 2
    /\ TakenPoints(1) = 2
    /\ TakenPoints(2) = 1
    /\ pc = "tail"
    /\ system_tick_time = 40
    /\ Len(out) = 3 * N_CHANNELS
    /\ out[Len(out)].t = [s |-> 951869800, us |-> 4000]

\* the packet a step takes triggers a re-sync
TakesResyncPacket == TakesPacket /\ trace'[Len(trace')].resync

Unnumbered(p) == [p EXCEPT !.Header.dataTypeSequence = 0]
UnnumberedStream == [k \in 1 .. Len(trace) |-> Unnumbered(TakenPacket(k))]

\* the clock state, the rate state and the records before the first packet
ReplayStart ==
    [t_chunk_start |-> None,
     system_tick_time |-> 0,
     system_tick_prev |-> None,
     medtronic_timestamp_prev |-> None,
     rate |-> [sample_rate |-> None, sampling_freq |-> None,
               sampling_period |-> None, ticks_per_point |-> None],
     out |-> <<>>]

\* the clock state, the rate state and the records after the loop body has
\* run on packet p, the k-th of its stream, from the state st; it reads the
\* packet's unit, rate code, device timestamp, tick and samples
ReplayPacket(st, p, k, tz) ==
    LET seconds == p.Header.timestamp.seconds
        tick == p.Header.systemTick
        ts_prev == IF st.medtronic_timestamp_prev = None
                   THEN seconds ELSE Val(st.medtronic_timestamp_prev)
        rate == RateUpdate(p.SampleRate, st.rate)
        tpp == Val(rate.ticks_per_point)
        resync == NeedResync(st.t_chunk_start, seconds, ts_prev)
        chunk == IF resync THEN UnixTimestamp(seconds, tz)
                           ELSE Val(st.t_chunk_start)
        tick_prev == IF resync THEN tick ELSE Val(st.system_tick_prev)
        tick_time == (IF resync THEN 0 ELSE st.system_tick_time)
                         + TicksElapsed(tick, tick_prev)
        n == Len(p.ChannelSamples[0].Value)
        tick_start == SystemTickStart(tick_time, n, tpp)
        records ==
            [j \in 1 .. n * N_CHANNELS |->
                LET i == (j - 1) \div N_CHANNELS
                    c == (j - 1) % N_CHANNELS
                IN  [k |-> k,
                     i_point |-> i,
                     t |-> TickTime(chunk, PointTick(tick_start, i, tpp)),
                     i_channel |-> c,
                     v |-> Volts(p.ChannelSamples[c].Value[i + 1],
                                 V_UNIT_SCALE[p.Units])]]
    IN  [t_chunk_start |-> Some(chunk),
         system_tick_time |-> tick_time,
         system_tick_prev |-> Some(tick),
         medtronic_timestamp_prev |-> Some(seconds),
         rate |-> rate,
         out |-> st.out \o records]

RECURSIVE Replay(_, _)
Replay(stream, tz) ==
    IF stream = <<>>
    THEN ReplayStart
    ELSE ReplayPacket(Replay(SubSeq(stream, 1, Len(stream) - 1), tz),
                      stream[Len(stream)], Len(stream), tz)

\* C15: packet sequence numbers have no influence on the output or on
\* clock/rate state: two packet streams that are identical except for their
\* sequence numbers (gaps, duplicates, reordering of the numbers only)
\* produce identical record sequences and never raise an error.  Stated as:
\* whatever numbers the packets carry, the records are those a function of
\* the stream without its numbers gives, so are the clock and rate state
\* between packets, and only an unknown unit raises an error.
C15_SequenceNumbersIgnored ==
    LET r == Replay(UnnumberedStream, timezone_offset)
    IN  /\ Len(out) <= Len(r.out)
        /\ out = SubSeq(r.out, 1, Len(out))
        /\ pc \in {"loop", "done"} =>
               /\ out = r.out
               /\ t_chunk_start = r.t_chunk_start
               /\ system_tick_time = r.system_tick_time
               /\ system_tick_prev = r.system_tick_prev
               /\ medtronic_timestamp_prev = r.medtronic_timestamp_prev
               /\ sample_rate = r.rate.sample_rate
               /\ ticks_per_point = r.rate.ticks_per_point
        /\ error # None => Val(packet).Units \notin KnownUnits

C15_Witness ==
    /\ Len(trace) = 2
    /\ TakenPacket(1).Header.dataTypeSequence = 7
    /\ TakenPacket(2).Header.dataTypeSequence = 2
    /\ packet_number_prev = Some(2)
    /\ TakenTick(1) = 65500
    /\ TakenTick(2) = 50
    /\ ~Resynced(2)
    /\ system_tick_time = 86
    /\ Len(out) = 2 * N_CHANNELS
    /\ pc = "done"

\* the well-formed packets of the feed
WellFormedPackets == {p \in ClockPackets : p.Units \in KnownUnits}

\* the loop body, run on packet p from this state, reads no None: the
\* previous timestamp in the drift comparison (line 50) is the one line 42
\* stored if none was held, the previous tick in the subtraction (line 60)
\* is held or set by the re-sync (line 57), ticks_per_point (lines 68, 74) is
\* held or set by the rate update (line 48), and the chunk start (lines 71,
\* 75) is held or set by the re-sync (line 55)
ReadsNoNone(p) ==
    LET seconds == p.Header.timestamp.seconds
        ts_prev == IF medtronic_timestamp_prev = None
                   THEN Some(seconds) ELSE medtronic_timestamp_prev
        resync == NeedResync(t_chunk_start, seconds, Val(ts_prev))
        rate == RateUpdate(p.SampleRate,
                           [sample_rate |-> sample_rate,
                            sampling_freq |-> sampling_freq,
                            sampling_period |-> sampling_period,
                            ticks_per_point |-> ticks_per_point])
    IN  /\ ts_prev # None
        /\ resync \/ system_tick_prev # None
        /\ resync \/ t_chunk_start # None
        /\ rate.ticks_per_point # None

\* C16: for every well-formed packet (known unit, tick in 0..65535,
\* equal-length channels) in every reachable state, including the initial
\* state where last_tick, chunk origin, rate and ticks_per_sample are still
\* undefined, processing completes without error: no undefined (None) value
\* is ever used in the tick subtraction, the drift comparison or the
\* timestamp arithmetic.
C16_NoNoneUsed ==
    /\ pc = "loop" => \A p \in WellFormedPackets : ReadsNoNone(p)
    /\ pc \in {"yield", "tail"} =>
           /\ system_tick_prev # None /\ medtronic_timestamp_prev # None
           /\ ticks_per_point # None /\ t_chunk_start # None
           /\ ticks_elapsed # None /\ system_tick_start # None
           /\ t_packet_start # None
    /\ pc = "failed" => Val(packet) \notin WellFormedPackets
    /\ error # None => pc = "failed"

C16_Witness ==
    /\ Len(trace) = 1
    /\ pc = "tail"
    /\ error = None
    /\ medtronic_timestamp_prev = Some(TakenSeconds(1))
    /\ system_tick_prev = Some(TakenTick(1))
    /\ ticks_elapsed = Some(0)
    /\ TakenRate(1) = 1
    /\ ticks_per_point = Some(20 * TickScale)
    /\ Len(out) = MaxPoints * N_CHANNELS

\* the tracker's states: no packet seen yet, and tracking within a chunk
Uninitialized ==
    /\ t_chunk_start = None
    /\ system_tick_prev = None
    /\ medtronic_timestamp_prev = None
    /\ ticks_per_point = None
    /\ system_tick_time = 0

Synced ==
    /\ t_chunk_start # None
    /\ system_tick_prev # None
    /\ medtronic_timestamp_prev # None
    /\ ticks_per_point # None

\* C17: the tracker starts UNINITIALIZED, becomes SYNCED on the first packet
\* with a forced re-sync (chunk origin = that packet's device-clock wall
\* time, accumulated ticks = 0, last_tick and last_device_timestamp stored),
\* and never returns to UNINITIALIZED: after the first packet
\* chunk_origin_time, last_tick, last_device_timestamp and ticks_per_sample
\* are defined in every later state.
C17_UninitializedThenSynced ==
    /\ [](trace = <<>> => Uninitialized)
    /\ [](trace # <<>> => Synced)
    /\ [](Len(trace) = 1 =>
              /\ Resynced(1)
              /\ t_chunk_start =
                     Some([s |-> 951868800 + TakenSeconds(1) \div 1000000
                                  - timezone_offset,
                           us |-> TakenSeconds(1) % 1000000])
              /\ system_tick_time = 0
              /\ system_tick_prev = Some(TakenTick(1))
              /\ medtronic_timestamp_prev = Some(TakenSeconds(1)))
    /\ [][Synced => Synced']_vars
    /\ [][Uninitialized' => Uninitialized]_vars

C17_Witness ==
    /\ Len(trace) = 2
    /\ Resynced(1)
    /\ ~Resynced(2)
    /\ TakenSeconds(1) = 1004999999
    /\ TakenSeconds(2) = 1000000000
    /\ Synced
    /\ t_chunk_start = Some([s |-> 951866204, us |-> 999999])
    /\ medtronic_timestamp_prev = Some(1000000000)
    /\ pc = "done"

\* C18: for every packet with n samples, sample i is timestamped
\* chunk_origin_time + (accumulated_ticks - (n - 1 - i) * ticks_per_sample)
\* * TICK_DURATION using the post-update accumulated_ticks; in particular
\* the last sample of every packet is timestamped exactly chunk_origin_time
\* + accumulated_ticks * TICK_DURATION.  Stated of the point yielded last,
\* in microseconds: a tick lasts 100 and ticks_per_sample ticks last the
\* sample period.
C18_SampleTimestamp ==
    (out # <<>> /\ Newest.k = Len(trace)) =>
        LET k == Newest.k
            n == TakenPoints(k)
            i == Newest.i_point
            since_origin == MicrosBetween(Val(t_chunk_start), Newest.t)
        IN  /\ since_origin = system_tick_time * 100
                                  - (n - 1 - i) * SamplePeriodMicros(TakenRate(k))
            /\ i = n - 1 => since_origin = system_tick_time * 100

C18_Witness ==
    /\ Len(trace) = 2
    /\ ~Resynced(2)
    /\ TakenRate(2) = 0
    /\ TakenPoints(2) = 2
    /\ system_tick_time = 40
    /\ pc = "tail"
    /\ Newest.i_point = 1
    /\ MicrosBetween(Val(t_chunk_start), Newest.t) = 4000
    /\ MicrosBetween(Val(t_chunk_start), out[Len(out) - N_CHANNELS].t) = 0

\* the rate state and the clock tracker state hold the values of the packet
\* in hand: its rate code and the ticks per sample of that code, the tick
\* its delta was measured from, and that delta
UpdatedForPacket(k) ==
    /\ sample_rate = Some(TakenRate(k))
    /\ Val(ticks_per_point) * 2 = TicksPerSampleTimes2(TakenRate(k)) * TickScale
    /\ t_chunk_start # None
    /\ ticks_elapsed = Some(Wrap16(TakenTick(k) - LastTick(k)))
    /\ Resynced(k) => system_tick_time = 0

\* the packet's first tick is computed from the updated rate and clock
TimestampedForPacket(k) ==
    Val(system_tick_start) * 2 =
        2 * system_tick_time * TickScale
            - (TakenPoints(k) - 1) * TicksPerSampleTimes2(TakenRate(k)) * TickScale

\* C19: per packet the driver performs, in this order, the rate-state
\* update, the clock-tracker update, the timestamp computation and the
\* emission; consequently the samples of the first packet, and of any packet
\* that changes the rate code, are spaced using the rate declared by that
\* same packet and never by an undefined or stale rate.
C19_UpdatesBeforeEmission ==
    /\ []((trace # <<>> /\ pc \in {"yield", "tail"}) =>
              /\ UpdatedForPacket(Len(trace))
              /\ TimestampedForPacket(Len(trace)))
    /\ [][out' # out =>
              /\ pc = "yield"
              /\ UNCHANGED <<sample_rate, ticks_per_point, t_chunk_start,
                             system_tick_time, system_tick_prev,
                             system_tick_start>>
              /\ LET y == out'[Len(out')]
                 IN  /\ y.k = Len(trace)
                     /\ MicrosBetween(Val(t_chunk_start), y.t) * TickScale =
                            Val(system_tick_start) * 100
                                + y.i_point * TickScale
                                      * SamplePeriodMicros(TakenRate(y.k))]_vars
    /\ [][TakesPacket => out' = out]_vars

C19_Witness ==
    /\ Len(trace) = 2
    /\ TakenRate(1) = 0
    /\ TakenRate(2) = 1
    /\ ~Resynced(2)
    /\ TakenPoints(1) = 2
    /\ TakenPoints(2) = 2
    /\ pc = "tail"
    /\ MicrosBetween(out[1].t, out[1 + N_CHANNELS].t) = 4000
    /\ MicrosBetween(out[Len(out) - N_CHANNELS].t, Newest.t) = 2000

\* the number of records of the first k packets taken
RECURSIVE RecordsThrough(_)
RecordsThrough(k) ==
    IF k = 0 THEN 0
    ELSE RecordsThrough(k - 1) + TakenPoints(k) * Cardinality(ChannelsOf(k))

\* C20: for every finite input sequence of well-formed packets the driver
\* terminates after emitting exactly the sum over packets of n *
\* channel_count records; it never revisits an earlier packet and holds no
\* records beyond those of the packet currently being processed.  The loop
\* ends; between packets and at its end the records number the sum over the
\* packets taken; packets are only ever taken after the ones before; and a
\* step hands over at most one record, of the packet in hand.
C20_TerminatesForwardOnly ==
    /\ <>(pc \in {"done", "failed"})
    /\ [](pc \in {"loop", "done"} => Len(out) = RecordsThrough(Len(trace)))
    /\ [](pc = "done" => error = None)
    /\ [][trace' # trace =>
              /\ Len(trace') = Len(trace) + 1
              /\ SubSeq(trace', 1, Len(trace)) = trace]_vars
    /\ [][out' # out =>
              /\ Len(out') = Len(out) + 1
              /\ SubSeq(out', 1, Len(out)) = out
              /\ out'[Len(out')].k = Len(trace)
              /\ trace' = trace
              /\ Val(packet) = TakenPacket(Len(trace))]_vars
    /\ [][(pc \in {"done", "failed"}) => UNCHANGED <<pc, out, trace>>]_vars

C20_Witness ==
    /\ pc = "done"
    /\ error = None
    /\ Len(trace) = 2
    /\ TakenPoints(1) = 2
    /\ TakenPoints(2) = 1
    /\ Len(out) = 3 * N_CHANNELS
    /\ out[Len(out)].k = 2
    /\ out[2 * N_CHANNELS].k = 1

\* the loop is between packets or over, after at least one packet
AfterPacket == trace # <<>> /\ pc \in {"loop", "done", "failed"}

\* C21: after every successfully processed packet, whether or not it
\* re-synced, last_tick equals that packet's hardware tick and
\* last_device_timestamp equals that packet's device timestamp, so drift and
\* tick deltas are always measured against the immediately preceding packet
\* (never against the chunk's first packet).
C21_PrevIsPrecedingPacket ==
    /\ AfterPacket =>
           /\ system_tick_prev = Some(TakenTick(Len(trace)))
           /\ medtronic_timestamp_prev = Some(TakenSeconds(Len(trace)))
    /\ (Len(trace) > 1 /\ pc \in {"yield", "tail"}) =>
           LET k == Len(trace)
           IN  /\ medtronic_timestamp_prev = Some(TakenSeconds(k - 1))
               /\ ~Resynced(k) =>
                      /\ system_tick_prev = Some(TakenTick(k - 1))
                      /\ Val(ticks_elapsed) =
                             Wrap16(TakenTick(k) - TakenTick(k - 1))
                      /\ Abs(TakenSeconds(k) - TakenSeconds(k - 1)) < 5000000

C21_Witness ==
    /\ Len(trace) = 2
    /\ ~Resynced(2)
    /\ TakenTick(1) = 10
    /\ TakenTick(2) = 65500
    /\ TakenSeconds(1) = 1000000000
    /\ TakenSeconds(2) = 1004999999
    /\ system_tick_prev = Some(65500)
    /\ medtronic_timestamp_prev = Some(1004999999)
    /\ pc = "loop"

\* the packet a step takes, and its drift from the packet before it
PacketTaken == trace'[Len(trace')].packet
DriftOfPacketTaken ==
    Abs(PacketTaken.Header.timestamp.seconds - Val(medtronic_timestamp_prev))

\* the step takes a packet, not the first, whose rate code differs from the
\* stored one and whose device timestamp is less than 5 s from the previous
\* packet's
TakesRateChangeOnly ==
    /\ TakesPacket
    /\ trace # <<>>
    /\ Some(PacketTaken.SampleRate) # sample_rate
    /\ DriftOfPacketTaken < 5000000

\* C22: a packet that does not trigger a re-sync leaves chunk_origin_time
\* unchanged, and a change of sample-rate code alone (device timestamp drift
\* < 5 s) neither triggers a re-sync nor resets accumulated_ticks: only the
\* rate-derived values change.
C22_RateChangeKeepsChunk ==
    /\ [][(TakesPacket /\ ~TakesResyncPacket) =>
              t_chunk_start' = t_chunk_start]_vars
    /\ [][TakesRateChangeOnly =>
              /\ ~TakesResyncPacket
              /\ t_chunk_start' = t_chunk_start
              /\ system_tick_time' =
                     system_tick_time
                         + Wrap16(PacketTaken.Header.systemTick
                                      - Val(system_tick_prev))
              /\ sample_rate' = Some(PacketTaken.SampleRate)
              /\ ticks_per_point' # ticks_per_point]_vars

C22_Witness ==
    /\ Len(trace) = 2
    /\ TakenRate(1) = 0
    /\ TakenRate(2) = 1
    /\ TakenSeconds(1) = 1000000000
    /\ TakenSeconds(2) = 1004999999
    /\ TakenTick(1) = 10
    /\ TakenTick(2) = 50
    /\ ~Resynced(2)
    /\ t_chunk_start = Some([s |-> 951866200, us |-> 0])
    /\ system_tick_time = 40
    /\ ticks_per_point = Some(20 * TickScale)

\* the wall time of the k-th packet's device timestamp
WallTimeOf(k) ==
    [s |-> 951868800 + TakenSeconds(k) \div 1000000 - timezone_offset,
     us |-> TakenSeconds(k) % 1000000]

\* C23: the records emitted for a packet that triggers a re-sync (including
\* the first packet) do not depend on that packet's hardware tick value nor
\* on any tick state from before the re-sync: its last sample is
\* timestamped exactly chunk_origin_time and its earlier samples lie before
\* chunk_origin_time by multiples of the sample period.  Stated of the point
\* yielded last: its time is given by the packet's device timestamp, rate
\* code, sample count and the sample's index alone.
C23_ResyncPacketIgnoresTick ==
    (out # <<>> /\ Newest.k = Len(trace) /\ Resynced(Newest.k)) =>
        LET k == Newest.k
            before == TakenPoints(k) - 1 - Newest.i_point
        IN  /\ t_chunk_start = Some(WallTimeOf(k))
            /\ MicrosBetween(Newest.t, WallTimeOf(k)) =
                   before * SamplePeriodMicros(TakenRate(k))
            /\ before = 0 => Newest.t = Val(t_chunk_start)

C23_Witness ==
    /\ Len(trace) = 2
    /\ Resynced(2)
    /\ TakenTick(1) = 10
    /\ TakenTick(2) = 65500
    /\ TakenRate(2) = 0
    /\ TakenPoints(2) = 2
    /\ pc = "tail"
    /\ Newest.t = Val(t_chunk_start)
    /\ MicrosBetween(out[Len(out) - N_CHANNELS].t, Val(t_chunk_start)) = 4000

\* the packet whose re-sync began the chunk of the k-th packet
RECURSIVE ChunkFirst(_)
ChunkFirst(k) == IF Resynced(k) THEN k ELSE ChunkFirst(k - 1)

\* the sum of the modular tick deltas of the packets after the chunk's
\* re-sync packet, up to the k-th
RECURSIVE DeltasSinceResync(_)
DeltasSinceResync(k) ==
    IF Resynced(k) THEN 0
    ELSE DeltasSinceResync(k - 1) + Wrap16(TakenTick(k) - TakenTick(k - 1))

TrueTicks(k) == (TakenSeconds(k) - TakenSeconds(k - 1)) \div 100

\* the k-th packet comes no earlier than the one before it, and its tick is
\* the counter's value after the true ticks
ClocksConsistent(k) ==
    /\ TakenSeconds(k) >= TakenSeconds(k - 1)
    /\ (TakenSeconds(k) - TakenSeconds(k - 1)) % 100 = 0
    /\ TakenTick(k) = (TakenTick(k - 1) + TrueTicks(k)) % 65536

\* C25: if the hardware tick counter and the coarse device clock advance
\* consistently (true elapsed ticks = 10000 per second of device time),
\* then for every packet that does not trigger a re-sync the computed
\* ticks_elapsed equals the true number of ticks elapsed since the previous
\* packet: the 5-second re-sync threshold (50000 ticks) keeps every
\* non-re-sync gap below the 65536-tick wrap, so the modular subtraction
\* never aliases.
C25_NoAliasing ==
    (Len(trace) > 1 /\ ClocksConsistent(Len(trace))
         /\ ~Resynced(Len(trace))) =>
        /\ TrueTicks(Len(trace)) < 50000
        /\ ticks_elapsed = Some(TrueTicks(Len(trace)))

C25_Witness ==
    /\ Len(trace) = 2
    /\ ClocksConsistent(2)
    /\ ~Resynced(2)
    /\ TakenSeconds(1) = 1000000000
    /\ TakenSeconds(2) = 1004999900
    /\ TakenTick(1) = 65500
    /\ TakenTick(2) = 49963
    /\ ticks_elapsed = Some(49999)
    /\ pc = "tail"

\* the stream taken so far
Stream == [k \in 1 .. Len(trace) |-> TakenPacket(k)]

\* C26: the timezone offset affects only absolute time: for the same packet
\* sequence, running with offsets tz1 and tz2 yields the same re-sync
\* decisions, the same accumulated_ticks, channel indices and voltages, and
\* every timestamp differs by exactly tz1 - tz2.  Stated against the run of
\* the same stream under offset 0: under offset tz the re-sync decisions
\* and accumulated_ticks are functions of the stream alone, the records are
\* those of offset 0 in index, channel and voltage, and each timestamp is
\* tz seconds earlier.
C26_TimezoneShiftsTimeOnly ==
    LET zero == Replay(Stream, 0)
    IN  /\ \A k \in 1 .. Len(trace) :
               Resynced(k) <=>
                   (k = 1 \/ Abs(TakenSeconds(k) - TakenSeconds(k - 1)) >= 5000000)
        /\ trace # <<>> => system_tick_time = DeltasSinceResync(Len(trace))
        /\ AfterPacket => system_tick_time = zero.system_tick_time
        /\ Len(out) <= Len(zero.out)
        /\ out # <<>> =>
               LET mine == Newest
                   its == zero.out[Len(out)]
               IN  /\ mine.k = its.k
                   /\ mine.i_point = its.i_point
                   /\ mine.i_channel = its.i_channel
                   /\ mine.v = its.v
                   /\ mine.t.s = its.t.s - timezone_offset
                   /\ mine.t.us = its.t.us

C26_Witness ==
    /\ timezone_offset = -18000
    /\ Len(trace) = 2
    /\ Resynced(2)
    /\ TakenSeconds(1) = 1005250000
    /\ TakenSeconds(2) = 1000250000
    /\ TakenPoints(2) = 2
    /\ pc = "tail"
    /\ Newest.t = [s |-> 951887800, us |-> 250000]
    /\ Replay(Stream, 0).out[Len(out)].t = [s |-> 951869800, us |-> 250000]

\* the clock tracker's state
tracker == <<t_chunk_start, system_tick_time, system_tick_prev,
             medtronic_timestamp_prev>>

\* the records of the packet in hand are being emitted
MidPacket == pc \in {"yield", "tail"}

\* accumulated_ticks and chunk_origin_time reflect the packet in hand
ReflectsPacket(k) ==
    /\ system_tick_time = DeltasSinceResync(k)
    /\ t_chunk_start = Some(WallTimeOf(ChunkFirst(k)))

\* C27 as stated: while the records of a packet are being emitted,
\* accumulated_ticks and chunk_origin_time already reflect that packet, but
\* last_tick and last_device_timestamp still hold the previous packet's
\* values; they are updated only after the packet's last record has been
\* emitted, so a consumer that stops pulling mid-packet leaves the tracker
\* in a state that is neither the pre-packet nor the post-packet state.
C27_Original ==
    /\ []((MidPacket /\ Len(trace) > 1) =>
              /\ ReflectsPacket(Len(trace))
              /\ system_tick_prev = Some(TakenTick(Len(trace) - 1))
              /\ medtronic_timestamp_prev = Some(TakenSeconds(Len(trace) - 1)))
    /\ [][(pc # "tail") =>
              UNCHANGED <<system_tick_prev, medtronic_timestamp_prev>>]_vars
    /\ [][(TakesPacket \/ pc = "tail") => tracker' # tracker]_vars

\* C27 (amended): while the records of a packet are being emitted,
\* accumulated_ticks and chunk_origin_time already reflect that packet;
\* last_device_timestamp still holds the previous packet's value (the
\* packet's own on the first packet), and last_tick holds the previous
\* packet's value unless the packet triggered a re-sync, in which case it
\* already holds the packet's own tick.  No emission changes the tracker,
\* and both are set to the packet's values after its last record, so a
\* consumer that stops pulling mid-packet leaves a tracker that differs from
\* the post-packet state exactly when the packet's device timestamp differs
\* from the previous packet's or, without a re-sync, its tick does, and from
\* the pre-packet state whenever the packet is the first, added ticks or
\* moved the chunk origin.
C27_MidPacketState ==
    /\ [](MidPacket =>
              LET k == Len(trace)
              IN  /\ ReflectsPacket(k)
                  /\ system_tick_prev = Some(LastTick(k))
                  /\ medtronic_timestamp_prev =
                         Some(TakenSeconds(IF k = 1 THEN 1 ELSE k - 1)))
    /\ [][out' # out => tracker' = tracker]_vars
    /\ [][(pc = "tail") =>
              LET k == Len(trace)
              IN  /\ system_tick_prev' = Some(TakenTick(k))
                  /\ medtronic_timestamp_prev' = Some(TakenSeconds(k))
                  /\ UNCHANGED <<t_chunk_start, system_tick_time>>
                  /\ tracker' # tracker <=>
                         \/ k > 1 /\ TakenSeconds(k) # TakenSeconds(k - 1)
                         \/ ~Resynced(k) /\ TakenTick(k) # TakenTick(k - 1)]_vars
    /\ [][(/\ TakesPacket
           /\ \/ trace = <<>>
              \/ Val(ticks_elapsed') > 0
              \/ t_chunk_start' # t_chunk_start) => tracker' # tracker]_vars

C27_Witness ==
    /\ Len(trace) = 2
    /\ pc = "yield"
    /\ Len(out) = N_CHANNELS + 2
    /\ ~Resynced(2)
    /\ TakenTick(1) = 10
    /\ TakenTick(2) = 50
    /\ TakenSeconds(1) = 1000000000
    /\ TakenSeconds(2) = 1004999999
    /\ system_tick_time = 40
    /\ system_tick_prev = Some(10)
    /\ medtronic_timestamp_prev = Some(1000000000)


\* ------------------------------------------------------------------- C28
\* the range main was asked for, in seconds
RequestedRange == Val(args).end_time - Val(args).start_time

\* main has decided on the request
Decided == cli_pc \notin {"start", "main"}

\* C28: main rejects a request whose range exceeds 90 days by exiting with
\* status 2 before it has created a directory, listed a session or
\* downloaded a stream; a request of 90 days or less is not rejected: main
\* goes on to create the target directory.  The arguments --start-time=-30d
\* --end-time=now ask for 30 days.
C28_RangeLimit ==
    /\ [](Decided =>
              IF RequestedRange > 90 * 86400
              THEN /\ cli_pc = "exited"
                   /\ exit_status = Some(2)
                   /\ calls = <<>>
                   /\ response = None
              ELSE /\ cli_pc # "exited"
                   /\ exit_status # Some(2)
                   /\ calls # <<>>
                   /\ Head(calls) = MakeDirs(TargetPath))
    /\ [][\A argv \in Argv :
              (/\ ParseArgs(argv)
               /\ argv.start_time = <<"-", "3", "0", "d">>
               /\ argv.end_time = <<"n", "o", "w">>)
                  => RequestedRange' = 30 * 86400]_vars

\* a request of 90 days and a second has made main exit
C28_Witness ==
    /\ cli_pc = "exited"
    /\ exit_status = Some(2)
    /\ RequestedRange = 90 * 86400 + 1
    /\ calls = <<>>

\* ------------------------------------------------------------------- C29
\* the last comma-separated component of an id
LastComponent(id) ==
    LET commas == {i \in DOMAIN id : id[i] = ","}
        from == IF commas = {} THEN 1
                ELSE (CHOOSE i \in commas : \A j \in commas : j <= i) + 1
    IN  SubSeq(id, from, Len(id))

WithDevicePrefix(s) == IF StartsWith(s, DevicePrefix) THEN s ELSE DevicePrefix \o s

\* the sessions of the response the generator has gone through
Visited ==
    CASE cli_pc = "sessions" -> SubSeq(Val(response), 1, Val(i_session) - 1)
      [] cli_pc = "streams" -> SubSeq(Val(response), 1, Val(i_session))
      [] OTHER -> Val(response)

\* a device id filter was given: the option is neither absent nor empty
FilterGiven == Val(args).device_id \notin {None, Some(<<>>)}

WithoutDataset(id) ==
    CHOOSE rest \in {SubSeq(id, i, Len(id)) : i \in 1..(Len(id) + 1)} :
        DatasetPrefix \o rest = id

\* target_path/<device id>/<start time in ms>_<session id without 'dataset-'>
DirOf(s) ==
    TargetPath \o <<LastComponent(s.device.id),
                    Decimal(s.startTime \div 1000) \o <<"_">> \o WithoutDataset(s.id)>>

\* the directory of a session, then each of its streams in listed order
CallsFor(s) ==
    <<MakeDirs(DirOf(s))>>
        \o [i \in DOMAIN s.streams |->
               Download(Append(DirOf(s), s.streams[i].streamName), s.id,
                        s.streams[i].streamName)]

RECURSIVE CallsForAll(_)
CallsForAll(sessions) ==
    IF sessions = <<>> THEN <<>>
    ELSE CallsForAll(SubSeq(sessions, 1, Len(sessions) - 1))
             \o CallsFor(sessions[Len(sessions)])

IsPrefix(s, t) == Len(s) <= Len(t) /\ s = SubSeq(t, 1, Len(s))

\* C30: for an accepted time range, after the target directory and the
\* listing, main's calls are, for each listed session in listing order, the
\* creation of the session's directory target_path/<device id>/<start time
\* in ms>_<session id without 'dataset-'> followed by one download of each
\* of its streams, in their listed order, to <that directory>/<stream
\* name>: every stream exactly once, and no stream before its directory.
C30_DownloadsInOrder ==
    response # None =>
        LET done == <<MakeDirs(TargetPath), Query>> \o CallsForAll(yielded)
            before == <<MakeDirs(TargetPath), Query>>
                          \o CallsForAll(SubSeq(yielded, 1, Len(yielded) - 1))
        IN  /\ cli_pc \in {"sessions", "returned"} => calls = done
            /\ cli_pc = "streams" =>
                   /\ IsPrefix(calls, done)
                   /\ Len(calls) = Len(before) + Val(i_stream)
                   /\ calls[Len(before) + 1] = MakeDirs(DirOf(yielded[Len(yielded)]))

\* main has returned after the sessions a of device x and b of device y;
\* its last call wrote stream lfp of b to out/device-y/2000_b/lfp
C30_Witness ==
    /\ cli_pc = "returned"
    /\ Len(yielded) = 2
    /\ Len(calls) = 7
    /\ calls[3] = MakeDirs(<<<<"o", "u", "t">>, DevicePrefix \o <<"x">>,
                            <<"1", "5", "0", "0", "_", "a">>>>)
    /\ calls[4].op = "download" /\ calls[5].op = "download"
    /\ calls[4].stream_name = Some(<<"l", "f", "p">>)
    /\ calls[5].stream_name = Some(<<"a", "c", "c">>)
    /\ calls[6].op = "makedirs"
    /\ calls[7] = Download(<<<<"o", "u", "t">>, DevicePrefix \o <<"y">>,
                             <<"2", "0", "0", "0", "_", "b">>,
                             <<"l", "f", "p">>>>,
                           DatasetPrefix \o <<"b">>, <<"l", "f", "p">>)
====
